---- MODULE Spec2Model ----
(***************************************************************************)
(* Connectivity diagnostic of the OpenSearch bridge (src/diagnose.js).     *)
(*                                                                         *)
(* runDiagnostics is an async function: it runs synchronously up to each   *)
(* await and is resumed by the completion of the awaited operation.  One   *)
(* action of the model is one such synchronous segment, or one callback    *)
(* of the raw HTTP probe.  The console output of the stages is kept as the *)
(* report: one record per outcome line a stage prints.                     *)
(*                                                                         *)
(* The gateway (src/unnamed/part_000, two variants of the Express server)  *)
(* is a separate process: its start-up is modelled statement by statement  *)
(* and each route handler as its synchronous segments around the awaited   *)
(* remote calls.  Spec runs the diagnostic, GatewaySpec the server.        *)
(***************************************************************************)
EXTENDS Integers, Sequences, FiniteSets, TLC

VARIABLES
    env,        \* process.env as read by the script
    pc,         \* position of runDiagnostics
    report,     \* outcome lines printed so far, in order
    calls,      \* network operations started so far, in order
    result,     \* what each started network operation yielded
    req,        \* state of the http(s) request of the transport probe
    resolved,   \* whether the promise of testBasicConnectivity is settled
    fault,      \* how a rejection of runDiagnostics() ended
    variant,    \* which of the two server files runs
    boot,       \* position of the server's module-level code
    clients,    \* the module-level client objects constructed so far
    routes,     \* the routes registered on the Express app
    conn        \* per request: its handler's position, calls and responses

\* The variables of the server process.
gw == <<variant, boot, clients, routes, conn>>

\* The variables of the diagnostic script.
diag == <<pc, report, calls, result, req, resolved, fault>>

vars == <<env, pc, report, calls, result, req, resolved, fault,
          variant, boot, clients, routes, conn>>

\* ------------------------------------------------------------------ bounds

\* Longest error message, counted in the marker words it is made of.
MaxMsgLen == 2

\* ------------------------------------------------------------- vocabulary

\* Words an error message is made of: markers the code searches for with
\* String.includes, and one word that is no marker.  "Forbidden", "Not
\* Found" and "index_not_found_exception" are left out of the alphabet: the
\* code tests each only in a disjunction with "403" or "404".
Tokens == {"timeout", "403", "ENOTFOUND", "404", "other",
           "ECONNREFUSED", "Request timed out"}

Messages == UNION {[1..n -> Tokens] : n \in 0..MaxMsgLen}

Stages == {"config", "dns", "transport", "handshake", "resource"}

StageOrder == <<"config", "dns", "transport", "handshake", "resource">>

Ops == {"dns.resolve4", "request", "info", "indices.exists", "indices.stats"}

NoHint == "none"
HintNetwork == "Check security groups and network ACLs"
HintIam == "Check IAM permissions and access policy"
HintDns == "Check DNS resolution and VPC configuration"

\* error.message.includes(tok)
Includes(msg, tok) == \E i \in 1..Len(msg) : msg[i] = tok

\* The suggestion printed after a failed client test: cascading includes
\* checks, first match wins.
Suggestion(msg) ==
    IF Includes(msg, "timeout") THEN HintNetwork
    ELSE IF Includes(msg, "403") THEN HintIam
    ELSE IF Includes(msg, "ENOTFOUND") THEN HintDns
    ELSE NoHint

\* One outcome line of a stage.  payload is the boolean of the index test
\* ("true"/"false") and "n/a" elsewhere.
Finding(stage, ok, category, payload, msg, hint) ==
    [stage |-> stage, ok |-> ok, category |-> category, payload |-> payload,
     msg |-> msg, hint |-> hint]

Success(stage) == Finding(stage, TRUE, "none", "n/a", <<>>, NoHint)

Failure(stage, category) == Finding(stage, FALSE, category, "n/a", <<>>, NoHint)

Started(op) == \E i \in 1..Len(calls) : calls[i] = op

FindingsOf(stage) == {i \in 1..Len(report) : report[i].stage = stage}

\* The requests the server handles concurrently.
Requests == {"r1", "r2"}

\* A request that has not arrived.
IdleConn == [route |-> "none", at |-> "idle", ops |-> <<>>, results |-> <<>>,
             words |-> {}, out |-> <<>>]

\* The server process is not running.
GatewayOff ==
    /\ variant = "none"
    /\ boot = "off"
    /\ clients = {}
    /\ routes = {}
    /\ conn = [r \in Requests |-> IdleConn]

\* ------------------------------------------------------------------- Init

Init ==
    /\ GatewayOff
    /\ env \in [endpoint : {"unset", "valid", "malformed"},
                accessKeyId : BOOLEAN,
                secretAccessKey : BOOLEAN]
    /\ pc = "start"
    /\ report = <<>>
    /\ calls = <<>>
    /\ result = [op \in Ops |-> "none"]
    /\ req = "none"
    /\ resolved = FALSE
    /\ fault = "none"

\* ---------------------------------------------------------- continuations

\* `return` from runDiagnostics.
Halt ==
    /\ pc' = "done"
    /\ UNCHANGED <<calls, req>>

\* await dns.resolve4(parsedUrl.hostname)
StartDns ==
    /\ pc' = "dns"
    /\ calls' = Append(calls, "dns.resolve4")
    /\ UNCHANGED req

\* await testBasicConnectivity(endpoint): the request is created, its three
\* listeners are registered and it is sent.
StartTransport ==
    /\ pc' = "transport"
    /\ calls' = Append(calls, "request")
    /\ req' = "pending"

\* testOpenSearchClient up to its await: opensearchClient.info()
StartHandshake ==
    /\ pc' = "handshake"
    /\ calls' = Append(calls, "info")
    /\ UNCHANGED req

\* testIndexExists up to its first await: opensearchClient.indices.exists
StartResource ==
    /\ pc' = "exists"
    /\ calls' = Append(calls, "indices.exists")
    /\ UNCHANGED req

\* opensearchClient.indices.stats({ index: indexName })
StartStats ==
    /\ pc' = "stats"
    /\ calls' = Append(calls, "indices.stats")
    /\ UNCHANGED req

\* ---------------------------------------------------------------- actions

\* The test that decides the environment check: only OPENSEARCH_ENDPOINT is
\* required; the credentials are printed as SET / NOT SET and not tested.
ConfigOkAlways(e) == TRUE

ConfigOk(e) == e.endpoint # "unset"

\* The environment check, up to the first await.  url.parse throws a
\* URIError on an endpoint whose auth part cannot be decoded; the call is
\* outside any try block, so the promise of runDiagnostics is rejected.
CheckConfig ==
    /\ pc = "start"
    /\ IF ~ConfigOk(env)
       THEN /\ report' = Append(report, Failure("config", "Unconfigured"))
            /\ Halt
            /\ UNCHANGED result
       ELSE /\ report' = Append(report, Success("config"))
            /\ IF env.endpoint = "malformed"
               THEN /\ pc' = "rejected"
                    /\ UNCHANGED <<calls, result, req>>
               ELSE /\ StartDns
                    /\ result' = [result EXCEPT !["dns.resolve4"] = "pending"]
    /\ UNCHANGED <<gw, env, resolved, fault>>

\* runDiagnostics().catch(console.error)
CatchRejection ==
    /\ pc = "rejected"
    /\ pc' = "done"
    /\ fault' = "caught"
    /\ UNCHANGED <<gw, env, report, calls, result, req, resolved>>

\* dns.resolve4 fulfilled: the addresses are printed and the probe starts.
DnsResolved ==
    /\ pc = "dns"
    /\ report' = Append(report, Success("dns"))
    /\ StartTransport
    /\ result' = [result EXCEPT !["dns.resolve4"] = "returned",
                                !["request"] = "pending"]
    /\ UNCHANGED <<gw, env, resolved, fault>>

DnsFailedContinues ==
    /\ pc = "dns"
    /\ report' = Append(report, Failure("dns", "DnsFailure"))
    /\ StartTransport
    /\ result' = [result EXCEPT !["dns.resolve4"] = "raised",
                                !["request"] = "pending"]
    /\ UNCHANGED <<gw, env, resolved, fault>>

\* dns.resolve4 rejected: the catch block prints the failure and returns.
DnsFailed ==
    /\ pc = "dns"
    /\ report' = Append(report, Failure("dns", "DnsFailure"))
    /\ Halt
    /\ result' = [result EXCEPT !["dns.resolve4"] = "raised"]
    /\ UNCHANGED <<gw, env, resolved, fault>>

\* The 'response' callback of the probe: any status code counts.  After a
\* response no 'error' reaches the request (later socket errors go to the
\* response object), and the answer to GET / with Connection: close ends
\* the socket, so no listener of the request runs afterwards.
ResponseCallback ==
    /\ req = "pending"
    /\ report' = Append(report, Success("transport"))
    /\ resolved' = TRUE
    /\ req' = "responded"
    /\ result' = [result EXCEPT !["request"] = "response"]
    /\ UNCHANGED <<gw, env, pc, calls, fault>>

\* The 'timeout' listener: prints TIMEOUT, destroys the request, resolves.
\* Destroying a request that has no response yet makes Node emit 'error'
\* ("socket hang up") on it, so the 'error' listener is still to run.
TimeoutCallback ==
    /\ req = "pending"
    /\ report' = Append(report, Failure("transport", "TimedOut"))
    /\ resolved' = TRUE
    /\ req' = "destroyed"
    /\ result' = [result EXCEPT !["request"] = "timeout"]
    /\ UNCHANGED <<gw, env, pc, calls, fault>>

ErrorCallbackNoResolve ==
    /\ req \in {"pending", "destroyed"}
    /\ report' = Append(report, Failure("transport", "ConnectionError"))
    /\ req' = "closed"
    /\ result' = [result EXCEPT !["request"] =
                     IF req = "pending" THEN "error" ELSE @]
    /\ UNCHANGED <<gw, env, pc, calls, fault, resolved>>

\* The 'error' listener: prints FAILED and resolves.  It runs for a
\* connection error of a pending request and for the hang-up of a request
\* the timeout listener destroyed.
ErrorCallback ==
    /\ req \in {"pending", "destroyed"}
    /\ report' = Append(report, Failure("transport", "ConnectionError"))
    /\ resolved' = TRUE
    /\ req' = "closed"
    /\ result' = [result EXCEPT !["request"] =
                     IF req = "pending" THEN "error" ELSE @]
    /\ UNCHANGED <<gw, env, pc, calls, fault>>

AfterTransportSkipsHandshake ==
    /\ pc = "transport"
    /\ resolved
    /\ StartResource
    /\ result' = [result EXCEPT !["indices.exists"] = "pending"]
    /\ UNCHANGED <<gw, env, report, resolved, fault>>

\* runDiagnostics resumed after await testBasicConnectivity: the promise
\* carries no value and nothing is tested; the client test starts.
AfterTransport ==
    /\ pc = "transport"
    /\ resolved
    /\ StartHandshake
    /\ result' = [result EXCEPT !["info"] = "pending"]
    /\ UNCHANGED <<gw, env, report, resolved, fault>>

\* opensearchClient.info() fulfilled: SUCCESS is printed, the client is
\* returned; runDiagnostics drops the value and starts the index test.
InfoReturned ==
    /\ pc = "handshake"
    /\ report' = Append(report, Success("handshake"))
    /\ StartResource
    /\ result' = [result EXCEPT !["info"] = "returned",
                                !["indices.exists"] = "pending"]
    /\ UNCHANGED <<gw, env, resolved, fault>>

\* opensearchClient.info() rejected with message m: FAILED and a suggestion
\* are printed, null is returned; runDiagnostics drops the value and starts
\* the index test.
InfoFailed ==
    /\ pc = "handshake"
    /\ \E m \in Messages :
           report' = Append(report,
               Finding("handshake", FALSE, "ClientFailed", "n/a", m, Suggestion(m)))
    /\ StartResource
    /\ result' = [result EXCEPT !["info"] = "raised",
                                !["indices.exists"] = "pending"]
    /\ UNCHANGED <<gw, env, resolved, fault>>

\* indices.exists fulfilled with body b.  true: EXISTS is printed and the
\* statistics are requested; false: the DOES NOT EXIST warning is printed.
ExistsReturned ==
    /\ pc = "exists"
    /\ \E b \in BOOLEAN :
           IF b
           THEN /\ report' = Append(report,
                       Finding("resource", TRUE, "none", "true", <<>>, NoHint))
                /\ StartStats
                /\ result' = [result EXCEPT !["indices.exists"] = "true",
                                            !["indices.stats"] = "pending"]
           ELSE /\ report' = Append(report,
                       Finding("resource", TRUE, "none", "false", <<>>, NoHint))
                /\ Halt
                /\ result' = [result EXCEPT !["indices.exists"] = "false"]
    /\ UNCHANGED <<gw, env, resolved, fault>>

\* indices.exists rejected: the catch block prints "Index test: FAILED".
ExistsFailed ==
    /\ pc = "exists"
    /\ report' = Append(report, Failure("resource", "IndexTestFailed"))
    /\ Halt
    /\ result' = [result EXCEPT !["indices.exists"] = "raised"]
    /\ UNCHANGED <<gw, env, resolved, fault>>

\* indices.stats fulfilled: the document count is printed under EXISTS.
StatsReturned ==
    /\ pc = "stats"
    /\ Halt
    /\ result' = [result EXCEPT !["indices.stats"] = "returned"]
    /\ UNCHANGED <<gw, env, report, resolved, fault>>

\* indices.stats rejected (or its body lacks the index): the same catch
\* block prints "Index test: FAILED" after EXISTS was printed.
StatsFailed ==
    /\ pc = "stats"
    /\ report' = Append(report, Failure("resource", "IndexTestFailed"))
    /\ Halt
    /\ result' = [result EXCEPT !["indices.stats"] = "raised"]
    /\ UNCHANGED <<gw, env, resolved, fault>>

Next ==
    \/ CheckConfig
    \/ CatchRejection
    \/ DnsResolved
    \/ DnsFailed
    \/ ResponseCallback
    \/ TimeoutCallback
    \/ ErrorCallback
    \/ AfterTransport
    \/ InfoReturned
    \/ InfoFailed
    \/ ExistsReturned
    \/ ExistsFailed
    \/ StatsReturned
    \/ StatsFailed

Spec == Init /\ [][Next]_vars

\* The event loop runs every callback and continuation that is ready, and
\* every awaited operation yields a result, an error or a timeout event.
FairSpec == Spec /\ WF_vars(Next)

\* ---------------------------------------------------------------- gateway

\* requiredEnvVars of the first variant.
RequiredEnvVars ==
    {"OPENSEARCH_ENDPOINT", "AWS_ACCESS_KEY_ID", "AWS_SECRET_ACCESS_KEY",
     "FIREHOSE_DELIVERY_STREAM_NAME"}

\* !process.env[varName]
IsSet(e, name) ==
    CASE name = "OPENSEARCH_ENDPOINT" -> e.endpoint # "unset"
      [] name = "AWS_ACCESS_KEY_ID" -> e.accessKeyId
      [] name = "AWS_SECRET_ACCESS_KEY" -> e.secretAccessKey
      [] name = "FIREHOSE_DELIVERY_STREAM_NAME" -> e.firehoseStream

\* requiredEnvVars.filter(varName => !process.env[varName])
MissingEnvVars(e) == {name \in RequiredEnvVars : ~IsSet(e, name)}

\* The routes each server file registers that call a remote service.
RoutesOf(v) ==
    {"/send", "/send-pipe-data", "/search/all", "/search/pipe-data",
     "/search/real-opensearch"}
    \cup (IF v = "first" THEN {"/test-connection"} ELSE {})

SearchRoutes == {"/search/all", "/search/pipe-data", "/search/real-opensearch"}

\* The remote call a handler awaits first.
FirstOp(v, route) ==
    CASE route = "/test-connection" -> "info"
      [] route \in {"/send", "/send-pipe-data"} -> "firehose.send"
      [] route \in {"/search/all", "/search/pipe-data"} -> "search"
      [] route = "/search/real-opensearch" ->
             IF v = "first" THEN "indices.exists" ELSE "search"

\* The words of an error message.
Words(msg) == {msg[i] : i \in 1..Len(msg)}

\* The error messages the remote calls of the server raise: one message
\* for every set of words, its words in the order of TokenSeq.  The
\* handlers test only which words a message contains.
TokenSeq == <<"timeout", "Request timed out", "ENOTFOUND", "ECONNREFUSED",
              "403", "404", "other">>

\* The words at the positions ks of TokenSeq, in that order.
Pick(ks) ==
    [i \in 1..Cardinality(ks) |->
        TokenSeq[CHOOSE k \in ks : Cardinality({j \in ks : j < k}) = i - 1]]

ErrorMessages ==
    {Pick(ks) : ks \in {S \in SUBSET (1..Len(TokenSeq)) :
                            Cardinality(S) <= MaxMsgLen}}

\* troubleshooting of GET /test-connection: the flags that are true.
TestConnectionFlags(msg) ==
    (IF Includes(msg, "timeout") \/ Includes(msg, "ENOTFOUND")
        THEN {"networkIssue"} ELSE {})
    \cup (IF Includes(msg, "403") \/ Includes(msg, "Forbidden")
        THEN {"authIssue"} ELSE {})
    \cup (IF Includes(msg, "404") \/ Includes(msg, "Not Found")
        THEN {"configIssue"} ELSE {})

\* troubleshooting of GET /search/real-opensearch (first variant).
RealOpenSearchFlags(msg) ==
    (IF Includes(msg, "timeout") \/ Includes(msg, "Request timed out")
        THEN {"timeoutIssue"} ELSE {})
    \cup (IF Includes(msg, "ENOTFOUND") \/ Includes(msg, "ECONNREFUSED")
        THEN {"networkIssue"} ELSE {})
    \cup (IF Includes(msg, "403") \/ Includes(msg, "Forbidden")
        THEN {"authIssue"} ELSE {})
    \cup (IF Includes(msg, "404") \/ Includes(msg, "index_not_found_exception")
        THEN {"indexIssue"} ELSE {})

\* A response body with its status.  error, timestamp and troubleshooting
\* say whether the body has the field; emits are the flags the
\* troubleshooting object has, flags those that are true.
Response(status, success, error, troubleshooting, emits, flags) ==
    [status |-> status, success |-> success, error |-> error,
     timestamp |-> TRUE, troubleshooting |-> troubleshooting,
     emits |-> emits, flags |-> flags]

\* res.json({ success: true, ... })
Ok200 == Response(200, TRUE, FALSE, FALSE, {}, {})

\* res.status(500).json({ success: false, error: error.message, timestamp })
Plain500 == Response(500, FALSE, TRUE, FALSE, {}, {})

\* The awaited call settles with res ("ok", "true", "false" or "raised",
\* with the words w of its error message) and the handler answers
\* res.status(...).json(body) and ends.
Respond(r, resp, w, res) ==
    conn' = [conn EXCEPT ![r].out = Append(@, resp), ![r].at = "closed",
                         ![r].words = w, ![r].results = Append(@, res)]

GwInit ==
    /\ env \in [endpoint : {"unset", "valid"},
                accessKeyId : BOOLEAN,
                secretAccessKey : BOOLEAN,
                firehoseStream : BOOLEAN]
    /\ variant \in {"first", "second"}
    /\ boot = "load"
    /\ clients = {}
    /\ routes = {}
    /\ conn = [r \in Requests |-> IdleConn]
    /\ pc = "off"
    /\ report = <<>>
    /\ calls = <<>>
    /\ result = [op \in Ops |-> "none"]
    /\ req = "none"
    /\ resolved = FALSE
    /\ fault = "none"

\* new FirehoseClient(...): in both variants the first client constructed,
\* in the first variant before the environment is validated.
ConstructFirehose ==
    /\ boot = "load"
    /\ clients' = clients \cup {"firehose"}
    /\ boot' = IF variant = "first" THEN "validate" ELSE "construct"
    /\ UNCHANGED <<env, diag, variant, routes, conn>>

ValidateEnvNoExit ==
    /\ boot = "validate"
    /\ boot' = "construct"
    /\ UNCHANGED <<env, diag, variant, clients, routes, conn>>

\* First variant: process.exit(1) when a required variable is missing.
ValidateEnv ==
    /\ boot = "validate"
    /\ boot' = IF MissingEnvVars(env) # {} THEN "exit1" ELSE "construct"
    /\ UNCHANGED <<env, diag, variant, clients, routes, conn>>

\* new Client(...) for OpenSearch.
ConstructOpenSearch ==
    /\ boot = "construct"
    /\ clients' = clients \cup {"opensearch"}
    /\ boot' = "register"
    /\ UNCHANGED <<env, diag, variant, routes, conn>>

\* app.use / app.get / app.post
RegisterRoutes ==
    /\ boot = "register"
    /\ routes' = RoutesOf(variant)
    /\ boot' = "listen"
    /\ UNCHANGED <<env, diag, variant, clients, conn>>

\* app.listen(port, '0.0.0.0', ...)
Listen ==
    /\ boot = "listen"
    /\ boot' = "listening"
    /\ UNCHANGED <<env, diag, variant, clients, routes, conn>>

\* A request arrives on a registered route; its handler runs up to its
\* first await.
Arrive ==
    /\ boot = "listening"
    /\ \E r \in Requests, rt \in routes :
           /\ conn[r].at = "idle"
           /\ conn' = [conn EXCEPT ![r] =
                  [route |-> rt, at |-> FirstOp(variant, rt),
                   ops |-> <<FirstOp(variant, rt)>>, results |-> <<>>,
                   words |-> {}, out |-> <<>>]]
    /\ UNCHANGED <<env, diag, variant, boot, clients, routes>>

\* GET /test-connection: opensearchClient.info() fulfilled.
TestConnectionOk ==
    /\ \E r \in Requests :
           /\ conn[r].route = "/test-connection"
           /\ conn[r].at = "info"
           /\ Respond(r, Ok200, {}, "ok")
    /\ UNCHANGED <<env, diag, variant, boot, clients, routes>>

\* GET /test-connection: info() rejected with message m.
TestConnectionFailed ==
    /\ \E r \in Requests, m \in ErrorMessages :
           /\ conn[r].route = "/test-connection"
           /\ conn[r].at = "info"
           /\ Respond(r, Response(500, FALSE, TRUE, TRUE,
                         {"networkIssue", "authIssue", "configIssue"},
                         TestConnectionFlags(m)), Words(m), "raised")
    /\ UNCHANGED <<env, diag, variant, boot, clients, routes>>

\* POST /send and POST /send-pipe-data: firehoseClient.send fulfilled.
SendOk ==
    /\ \E r \in Requests :
           /\ conn[r].route \in {"/send", "/send-pipe-data"}
           /\ conn[r].at = "firehose.send"
           /\ Respond(r, Ok200, {}, "ok")
    /\ UNCHANGED <<env, diag, variant, boot, clients, routes>>

\* POST /send and POST /send-pipe-data: the catch block.
SendFailed ==
    /\ \E r \in Requests :
           /\ conn[r].route \in {"/send", "/send-pipe-data"}
           /\ conn[r].at = "firehose.send"
           /\ Respond(r, Plain500, {}, "raised")
    /\ UNCHANGED <<env, diag, variant, boot, clients, routes>>

\* GET /search/all and GET /search/pipe-data: search fulfilled.
SearchOk ==
    /\ \E r \in Requests :
           /\ conn[r].route \in {"/search/all", "/search/pipe-data"}
           /\ conn[r].at = "search"
           /\ Respond(r, Ok200, {}, "ok")
    /\ UNCHANGED <<env, diag, variant, boot, clients, routes>>

SearchFailedSharedRes ==
    /\ \E r \in Requests, q \in Requests :
           /\ conn[r].route \in {"/search/all", "/search/pipe-data"}
           /\ conn[r].at = "search"
           /\ conn[q].at \notin {"idle", "closed"}
           /\ conn' = [conn EXCEPT ![r].results = Append(@, "raised"),
                                   ![q].out = Append(@, Plain500),
                                   ![q].at = "closed"]
    /\ UNCHANGED <<env, diag, variant, boot, clients, routes>>

\* GET /search/all and GET /search/pipe-data: the catch block (search
\* rejected, or the body of the answer has no hits).
SearchFailed ==
    /\ \E r \in Requests :
           /\ conn[r].route \in {"/search/all", "/search/pipe-data"}
           /\ conn[r].at = "search"
           /\ Respond(r, Plain500, {}, "raised")
    /\ UNCHANGED <<env, diag, variant, boot, clients, routes>>

RealExistsReturnedSearchesAnyway ==
    /\ \E r \in Requests, b \in BOOLEAN :
           /\ conn[r].route = "/search/real-opensearch"
           /\ conn[r].at = "indices.exists"
           /\ conn' = [conn EXCEPT ![r].at = "search",
                                   ![r].ops = Append(@, "search"),
                                   ![r].results = Append(@,
                                       IF b THEN "true" ELSE "false")]
    /\ UNCHANGED <<env, diag, variant, boot, clients, routes>>

RealExistsReturnedNoAnswer ==
    /\ \E r \in Requests, b \in BOOLEAN :
           /\ conn[r].route = "/search/real-opensearch"
           /\ conn[r].at = "indices.exists"
           /\ IF b
              THEN conn' = [conn EXCEPT ![r].at = "search",
                                        ![r].ops = Append(@, "search"),
                                        ![r].results = Append(@, "true")]
              ELSE conn' = [conn EXCEPT ![r].at = "closed",
                                        ![r].results = Append(@, "false")]
    /\ UNCHANGED <<env, diag, variant, boot, clients, routes>>

\* GET /search/real-opensearch, first variant: indices.exists fulfilled
\* with body b.  false: 404 and return; true: the search is issued.
RealExistsReturned ==
    /\ \E r \in Requests, b \in BOOLEAN :
           /\ conn[r].route = "/search/real-opensearch"
           /\ conn[r].at = "indices.exists"
           /\ IF b
              THEN conn' = [conn EXCEPT ![r].at = "search",
                                        ![r].ops = Append(@, "search"),
                                        ![r].results = Append(@, "true")]
              ELSE Respond(r, Response(404, FALSE, TRUE, FALSE, {}, {}), {}, "false")
    /\ UNCHANGED <<env, diag, variant, boot, clients, routes>>

\* The catch block of GET /search/real-opensearch for an error with
\* message m: the first variant adds the troubleshooting object.
RealCatch(r, m) ==
    IF variant = "first"
    THEN Respond(r, Response(500, FALSE, TRUE, TRUE,
                     {"timeoutIssue", "networkIssue", "authIssue", "indexIssue"},
                     RealOpenSearchFlags(m)), Words(m), "raised")
    ELSE Respond(r, Plain500, {}, "raised")

\* GET /search/real-opensearch, first variant: indices.exists rejected.
RealExistsFailed ==
    /\ \E r \in Requests, m \in ErrorMessages :
           /\ conn[r].route = "/search/real-opensearch"
           /\ conn[r].at = "indices.exists"
           /\ RealCatch(r, m)
    /\ UNCHANGED <<env, diag, variant, boot, clients, routes>>

\* GET /search/real-opensearch: search fulfilled.
RealSearchOk ==
    /\ \E r \in Requests :
           /\ conn[r].route = "/search/real-opensearch"
           /\ conn[r].at = "search"
           /\ Respond(r, Ok200, {}, "ok")
    /\ UNCHANGED <<env, diag, variant, boot, clients, routes>>

\* GET /search/real-opensearch: search rejected.  The second variant's
\* body never depends on the message.
RealSearchFailed ==
    /\ \E r \in Requests :
           /\ conn[r].route = "/search/real-opensearch"
           /\ conn[r].at = "search"
           /\ \E m \in IF variant = "first" THEN ErrorMessages ELSE {<<>>} :
                  RealCatch(r, m)
    /\ UNCHANGED <<env, diag, variant, boot, clients, routes>>

GwNext ==
    \/ ConstructFirehose
    \/ ValidateEnv
    \/ ConstructOpenSearch
    \/ RegisterRoutes
    \/ Listen
    \/ Arrive
    \/ TestConnectionOk
    \/ TestConnectionFailed
    \/ SendOk
    \/ SendFailed
    \/ SearchOk
    \/ SearchFailed
    \/ RealExistsReturned
    \/ RealExistsFailed
    \/ RealSearchOk
    \/ RealSearchFailed

GatewaySpec == GwInit /\ [][GwNext]_vars

\* Every remote call a handler awaits is settled (fulfilled or rejected)
\* and the event loop resumes the handler; requests need not keep coming.
Settle ==
    \/ TestConnectionOk
    \/ TestConnectionFailed
    \/ SendOk
    \/ SendFailed
    \/ SearchOk
    \/ SearchFailed
    \/ RealExistsReturned
    \/ RealExistsFailed
    \/ RealSearchOk
    \/ RealSearchFailed

GatewayFairSpec == GatewaySpec /\ WF_vars(Settle)

\* ------------------------------------------------------------ properties

FailedIn(stage) == \E i \in FindingsOf(stage) : ~report[i].ok

LastStage == report[Len(report)].stage

AllSuccess == \A i \in 1..Len(report) : report[i].ok

StageSeq == [i \in 1..Len(report) |-> report[i].stage]

IsPrefix(s, t) == Len(s) <= Len(t) /\ \A i \in 1..Len(s) : s[i] = t[i]

\* The operation whose start marks the execution of a stage.
Executed(stage) ==
    CASE stage = "config" -> pc # "start"
      [] stage = "dns" -> Started("dns.resolve4")
      [] stage = "transport" -> Started("request")
      [] stage = "handshake" -> Started("info")
      [] stage = "resource" -> Started("indices.exists")

\* No callback of the probe and no continuation is still to run.
Quiescent == pc = "done" /\ req \notin {"pending", "destroyed"}

\* C1: once the transport stage has printed a timeout or a connection
\* error, info and indices.exists have not been and are never invoked, and
\* the transport finding is the last finding of the report.
C1_TransportFailureHalts ==
    FailedIn("transport") =>
        /\ ~Started("info")
        /\ ~Started("indices.exists")
        /\ LastStage = "transport"

\* C2: once the client test has printed a failure of info, indices.exists
\* is never invoked and the handshake finding is the last of the report.
C2_HandshakeFailureHalts ==
    FailedIn("handshake") =>
        /\ ~Started("indices.exists")
        /\ LastStage = "handshake"

\* C3: with OPENSEARCH_ENDPOINT unset the run ends with exactly one
\* finding, the configuration failure, and no DNS resolution, probe or
\* client call is ever started.
C3_UnsetEndpointOneFinding ==
    env.endpoint = "unset" =>
        /\ calls = <<>>
        /\ req = "none"
        /\ \A op \in Ops : result[op] = "none"
        /\ pc \in {"start", "done"}
        /\ pc = "start" => report = <<>>
        /\ pc = "done" => report = <<Failure("config", "Unconfigured")>>

C3_Witness == env.endpoint = "unset" /\ pc = "done" /\ Len(report) = 1

\* C4: whenever the endpoint or one of the two credentials is absent, the
\* configuration stage fails with Unconfigured and no later stage starts.
C4_MissingCredentialBlocks ==
    (pc # "start" /\ (env.endpoint = "unset" \/ ~env.accessKeyId
                        \/ ~env.secretAccessKey)) =>
        /\ report[1] = Failure("config", "Unconfigured")
        /\ calls = <<>>

\* C5: once DNS resolution has failed the run is over: the probe, info and
\* indices.exists are never started and the DNS failure is the last
\* finding of the report.
C5_DnsFailureHalts ==
    FailedIn("dns") =>
        /\ pc = "done"
        /\ calls = <<"dns.resolve4">>
        /\ req = "none"
        /\ LastStage = "dns"
        /\ StageSeq = <<"config", "dns">>

C5_Witness == result["dns.resolve4"] = "raised" /\ pc = "done" /\ FailedIn("dns")

\* C6: no stage ever has two findings, and when the run is over and no
\* callback is left every stage that executed has exactly one.
C6_OneFindingPerStage ==
    /\ \A s \in Stages : Cardinality(FindingsOf(s)) <= 1
    /\ (Quiescent /\ fault = "none") =>
           \A s \in Stages : Executed(s) => Cardinality(FindingsOf(s)) = 1

\* C7: while every finding is a Success the findings follow the stage
\* order without gap or repetition, a finished run of successes has all
\* five, and a stage starts only after the stage before it has a finding.
C7_AllSucceedFiveInOrder ==
    /\ AllSuccess => IsPrefix(StageSeq, StageOrder)
    /\ (AllSuccess /\ pc = "done" /\ fault = "none") => StageSeq = StageOrder
    /\ Started("dns.resolve4") => FindingsOf("config") # {}
    /\ Started("request") => FindingsOf("dns") # {}
    /\ Started("info") => FindingsOf("transport") # {}
    /\ Started("indices.exists") => FindingsOf("handshake") # {}

C7_Witness == pc = "done" /\ AllSuccess /\ Len(report) = 5

\* C8: when indices.exists has returned a boolean, the finished run holds
\* for the resource stage only Success findings carrying that boolean,
\* whatever indices.stats did.
C8_ExistsBooleanReported ==
    (pc = "done" /\ result["indices.exists"] \in {"true", "false"}) =>
        /\ FindingsOf("resource") # {}
        /\ \A i \in FindingsOf("resource") :
               /\ report[i].ok
               /\ report[i].category = "none"
               /\ report[i].payload = result["indices.exists"]

\* Every failed network operation has a failure finding of its stage.
FailuresRecorded ==
    /\ result["dns.resolve4"] = "raised" => FailedIn("dns")
    /\ result["request"] \in {"timeout", "error"} => FailedIn("transport")
    /\ result["info"] = "raised" => FailedIn("handshake")
    /\ (result["indices.exists"] = "raised" \/ result["indices.stats"] = "raised")
           => FailedIn("resource")

C10_DnsMarkerWins ==
    \A i \in FindingsOf("handshake") :
        (~report[i].ok /\ Includes(report[i].msg, "ENOTFOUND")) =>
            report[i].hint = HintDns

\* ---------------------------------------------------- gateway properties

\* The responses of request r.
Out(r) == conn[r].out

Answered(r) == conn[r].at = "closed"

\* The message carries a marker of a refused connection, an elapsed
\* deadline or a failed DNS resolution.
NetworkWords == {"ECONNREFUSED", "timeout", "Request timed out", "ENOTFOUND"}

\* C11: every troubleshooting object marks at most one category: no error
\* message turns two of its flags on.
C11_OneCategoryPerFailure ==
    \A r \in Requests : \A i \in 1..Len(Out(r)) :
        Out(r)[i].troubleshooting => Cardinality(Out(r)[i].flags) <= 1

\* C12: in every troubleshooting object that has the networkIssue flag,
\* the flag is true exactly when the error is a refused connection, a
\* timeout or a DNS failure.
C12_NetworkIssueIffNetworkCategory ==
    \A r \in Requests : \A i \in 1..Len(Out(r)) :
        "networkIssue" \in Out(r)[i].emits =>
            ("networkIssue" \in Out(r)[i].flags
                <=> conn[r].words \cap NetworkWords # {})

\* C13: every failure response of a search route has success = false, a
\* timestamp, an error message and a troubleshooting object.
C13_SearchFailureHasTroubleshooting ==
    \A r \in Requests : \A i \in 1..Len(Out(r)) :
        (conn[r].route \in SearchRoutes /\ Out(r)[i].status # 200) =>
            /\ ~Out(r)[i].success
            /\ Out(r)[i].timestamp
            /\ Out(r)[i].error
            /\ Out(r)[i].troubleshooting

\* The remote calls of request r that have settled all succeeded.
AllCallsOk(r) ==
    \A i \in 1..Len(conn[r].results) : conn[r].results[i] \in {"ok", "true"}

C16_SearchOnlyAfterExists ==
    \A r \in Requests :
        (variant = "first" /\ conn[r].route = "/search/real-opensearch") =>
            /\ conn[r].ops[1] = "indices.exists"
            /\ (\E i \in 1..Len(conn[r].ops) : conn[r].ops[i] = "search") =>
                   (Len(conn[r].results) >= 1 /\ conn[r].results[1] = "true")
            /\ (Len(conn[r].results) >= 1 /\ conn[r].results[1] = "false") =>
                   /\ conn[r].ops = <<"indices.exists">>
                   /\ Answered(r)
                   /\ Out(r) = <<Response(404, FALSE, TRUE, FALSE, {}, {})>>
            /\ (Len(conn[r].results) >= 1 /\ conn[r].results[1] = "raised") =>
                   /\ conn[r].ops = <<"indices.exists">>
                   /\ Answered(r)
                   /\ Len(Out(r)) = 1
                   /\ Out(r)[1].status = 500
                   /\ ~Out(r)[1].success

C16_Witness ==
    /\ variant = "first"
    /\ conn["r1"].route = "/search/real-opensearch"
    /\ conn["r1"].results = <<"false">>
    /\ conn["r2"].route = "/search/real-opensearch"
    /\ conn["r2"].ops = <<"indices.exists", "search">>

\* C17: in the first variant a missing required setting ends the process
\* with exit code 1 before the search client exists, before any route is
\* registered and before listening; a listening server has all four.
C17_MissingSettingExits ==
    variant = "first" =>
        /\ MissingEnvVars(env) # {} =>
               /\ boot \in {"load", "validate", "exit1"}
               /\ "opensearch" \notin clients
               /\ routes = {}
               /\ \A r \in Requests : conn[r] = IdleConn
        /\ boot = "exit1" => MissingEnvVars(env) # {}
        /\ (boot = "listening" \/ \E r \in Requests : conn[r].at # "idle") =>
               MissingEnvVars(env) = {}

C17_Witness == variant = "first" /\ boot = "exit1" /\ clients = {"firehose"}

====
